---- MODULE Spec2Model ----
(***************************************************************************)
(* A model of install.py, the Gentoo automated installer.                  *)
(*                                                                         *)
(* The installer is one sequential Python process.  Every function of the  *)
(* script is written here as a table of steps (one step per statement that *)
(* prompts, runs an external command, branches or writes installation      *)
(* state), and the actions below execute the step under the program        *)
(* counter.  run_cmd and yesno are modelled by their own actions, since    *)
(* they are where the operator and the external commands come in.          *)
(*                                                                         *)
(* The disk guard check_portage_tmpdir is a function of the file system    *)
(* and the mount table alone; it is modelled as operators and exercised    *)
(* under its own specification, GuardSpec.  So is install_stage3's choice  *)
(* of the file to download from the listing it fetched, under ListingSpec. *)
(***************************************************************************)
EXTENDS Integers, Sequences, FiniteSets, TLC

VARIABLES
    stack,        \* call stack: sequence of [fn, pc], the running frame last
    mode,         \* "step" | "exec" (a run_cmd subprocess is running) | "ask" (run_cmd's Continue anyway?)
    cmd,          \* the external command being executed, "" when none is
    running,      \* FALSE once the process has terminated
    exitStatus,   \* the process exit status, meaningful once running is FALSE
    USE_LVM,      \* global USE_LVM
    DEVICES,      \* global DEVICES
    INIT_SYSTEM,  \* global INIT_SYSTEM ("None" while unset)
    swap_size,    \* setup_luks_lvm's local swap_size ("" outside it)
    euid,         \* os.geteuid() of the process
    portageDir,   \* whether /mnt/gentoo/etc/portage exists
    aborted,      \* history: the operator answered no to run_cmd's "Continue anyway?"
    guard,        \* history: outcome of the last in-chroot guard script run: "none" | "ok" | "fail"
    choice,       \* install_stage3's local choice ("None" outside it)
    manual,       \* set_time's local manual ("None" while unassigned)
    printed,      \* what run_cmd has printed about the command in hand: "" | "[RUN] ..." | "[ERROR] ..."
    devicePrompts,\* history: how many times prompt_device_paths has been called
    answer,       \* history: what yesno returned in the step just taken, "none" if it returned nothing
    quiet,        \* history: the step just taken was a failed command that run_cmd let pass (check=False)
    make_conf,    \* the USE value of /mnt/gentoo/etc/portage/make.conf as ensure_make_conf wrote it ("None": not written)
    tmpdirFixes,  \* history: how many times the /var/tmp and /tmp remediation has been started
    html,         \* ListingSpec: the names in the listing urlopen(url) returned, in its order
    stage3_file,  \* ListingSpec: install_stage3's stage3_file: "None" | "return" (no matches) | a name
    fs,           \* GuardSpec: what check_portage_tmpdir reads: the guarded path, /proc/mounts, statvfs
    verdict,      \* GuardSpec: what check_portage_tmpdir did: "none" | "ok" | "exit1"
    chrootVerdict \* ScriptSpec: what the generated check script did: "none" | "ok" | "exit1"

vars == <<stack, mode, cmd, running, exitStatus, USE_LVM, DEVICES, INIT_SYSTEM,
          swap_size, euid, portageDir, aborted, guard, choice, manual, printed,
          devicePrompts, answer, quiet, make_conf, tmpdirFixes, html, stage3_file,
          fs, verdict, chrootVerdict>>

pipeVars == <<stack, mode, cmd, running, exitStatus, USE_LVM, DEVICES, INIT_SYSTEM,
              swap_size, euid, portageDir, aborted, guard, choice, manual, printed,
              devicePrompts, answer, quiet, make_conf, tmpdirFixes>>

guardVars == <<fs, verdict>>

listingVars == <<html, stage3_file>>

(***************************************************************************)
(* str.strip() and str.lower(), on the characters the inputs below use.    *)
(***************************************************************************)
IsSpace(c) == c \in {" ", "\t", "\n"}

RECURSIVE lstrip(_)
lstrip(s) ==
    IF Len(s) > 0 /\ IsSpace(SubSeq(s, 1, 1)) THEN lstrip(SubSeq(s, 2, Len(s))) ELSE s

RECURSIVE rstrip(_)
rstrip(s) ==
    IF Len(s) > 0 /\ IsSpace(SubSeq(s, Len(s), Len(s)))
    THEN rstrip(SubSeq(s, 1, Len(s) - 1)) ELSE s

strip(s) == rstrip(lstrip(s))

LowerChar(c) ==
    CASE c = "Y" -> "y" [] c = "E" -> "e" [] c = "S" -> "s"
      [] c = "N" -> "n" [] c = "O" -> "o" [] OTHER -> c

RECURSIVE lower(_)
lower(s) == IF Len(s) = 0 THEN s ELSE LowerChar(SubSeq(s, 1, 1)) \o lower(SubSeq(s, 2, Len(s)))

(***************************************************************************)
(* What the operator may type.                                             *)
(***************************************************************************)
YesNoLines == {"y", " Yes", "n", "NO ", "maybe", ""}
EfiLines == {"", " /dev/sda1"}
RootLines == {"", "/dev/sda2 "}
HomeLines == {"", "/dev/sda3"}
SwapLines == {"", "/dev/sda4"}
SwapSizeLines == {"", "0", " 8G"}

(***************************************************************************)
(* Steps.                                                                  *)
(***************************************************************************)
Run(c) == [op |-> "run_cmd", cmd |-> c, check |-> TRUE]
\* Mutant: check=False is ignored.
RunNC_checked(c) == [op |-> "run_cmd", cmd |-> c, check |-> TRUE]

RunNC(c) == [op |-> "run_cmd", cmd |-> c, check |-> FALSE]
Sub(c) == [op |-> "subprocess", cmd |-> c]  \* subprocess.run / os.system, called directly, result not checked
\* Mutant: the statements under the question are executed whatever the answer.
YesNo_always(q, n) == [op |-> "yesno", q |-> q, skip |-> 0]

YesNo(q, n) == [op |-> "yesno", q |-> q, skip |-> n]  \* if yesno(q): the next n steps
Input(v) == [op |-> "input", var |-> v]
Pause == [op |-> "pause"]
Call(f) == [op |-> "call", fn |-> f]
If(c, n) == [op |-> "if", cond |-> c, skip |-> n]  \* if c: the next n steps
Env(c, n) == [op |-> "env", cond |-> c, skip |-> n]  \* the same, c decided by the environment
Jump(n) == [op |-> "jump", skip |-> n]
Do(e) == [op |-> "assign", eff |-> e]
Ret == [op |-> "return"]
Exit(n) == [op |-> "exit", status |-> n]
OpenW(p) == [op |-> "open_w", path |-> p]  \* open(p, "w") outside any try

(***************************************************************************)
(* The functions of install.py, as step tables.  A command is named by the *)
(* text run_cmd is given, with the f-string fields left in braces.         *)
(***************************************************************************)
\* Mutant: the message is printed, and the function returns.
require_root_no_exit ==
    << If("os.geteuid() != 0", 1),
       Jump(0) >>

require_root ==
    << If("os.geteuid() != 0", 1),
       Exit(1) >>

remount_tmpfs_if_needed ==
    << Sub("df -h /run"),
       Env("df succeeded", 3),
       Sub("findmnt -n -o FSTYPE /run"),
       Env("tmpfs and use_percent > 90", 1),
       Sub("mount -o remount,size=4G /run"),
       Sub("df -h /dev/shm"),
       Env("df succeeded", 3),
       Sub("findmnt -n -o FSTYPE /dev/shm"),
       Env("tmpfs and use_percent > 90", 1),
       Sub("mount -o remount,size=4G /dev/shm") >>

\* Mutant: a declined role keeps what it held.
prompt_device_paths_keeps_declined ==
    << Input("efi"),
       Input("root"),
       YesNo("Do you have a separate home partition?", 2),
       Input("home"),
       Jump(1),
       Jump(0),
       YesNo("Do you have a swap partition?", 2),
       Input("swap"),
       Jump(1),
       Jump(0) >>

prompt_device_paths ==
    << Input("efi"),
       Input("root"),
       YesNo("Do you have a separate home partition?", 2),
       Input("home"),
       Jump(1),
       Do("DEVICES[home] = ''"),
       YesNo("Do you have a swap partition?", 2),
       Input("swap"),
       Jump(1),
       Do("DEVICES[swap] = ''") >>

unmount_partitions ==
    << Sub("lsblk -ln {disk} | awk '{print $1}'"),
       Env("for part in reversed(mounted)", 2),
       RunNC("umount -lf {part}"),
       Jump(-3),
       Env("for part in partitions: part in swaps", 2),
       RunNC("swapoff {part}"),
       Jump(-3),
       RunNC("vgchange -an"),
       RunNC("for m in $(ls /dev/mapper | grep -v control); do cryptsetup close $m || true; done") >>

partition_disk ==
    << Input("disk"),
       Call("unmount_partitions"),
       YesNo("Partition and wipe {disk}? THIS WILL ERASE ALL DATA!", 1),
       Jump(1),
       Ret,
       Input("efi_size"),
       Input("partition swap_size"),
       Run("parted --script {disk} mklabel gpt"),
       Run("parted --script {disk} mkpart primary fat32 1MiB {efi_size}"),
       Run("parted --script {disk} set 1 boot on"),
       Env("swap_size != '0'", 1),
       Run("parted --script {disk} mkpart primary linux-swap {efi_size} {swap_size}"),
       Run("parted --script {disk} mkpart primary ext4 {root_start} 100%"),
       Run("parted {disk} print"),
       Pause >>

\* Mutant: swap size "0" leaves the swap role as it was.
setup_luks_lvm_keeps_swap ==
    << YesNo("Do you want to use LUKS encryption and LVM?", 1),
       Jump(2),
       Do("USE_LVM = False"),
       Ret,
       Do("USE_LVM = True"),
       Input("disk"),
       Run("cryptsetup -v --cipher aes-xts-plain64 --key-size 256 -y luksFormat {disk}"),
       Run("cryptsetup open --type luks {disk} cryptcontainer"),
       Run("pvcreate /dev/mapper/cryptcontainer"),
       Run("vgcreate vg0 /dev/mapper/cryptcontainer"),
       Input("swap_size"),
       Run("lvcreate --size 50G vg0 --name root"),
       Run("lvcreate --extents 100%FREE vg0 --name home"),
       If("swap_size != '0'", 3),
       Run("lvcreate --size {swap_size} vg0 --name swap"),
       Do("DEVICES[swap] = '/dev/vg0/swap'"),
       Jump(1),
       Jump(0),
       Do("DEVICES[root] = '/dev/vg0/root'"),
       Do("DEVICES[home] = '/dev/vg0/home'"),
       Run("lvdisplay"),
       Pause >>

setup_luks_lvm ==
    << YesNo("Do you want to use LUKS encryption and LVM?", 1),
       Jump(2),
       Do("USE_LVM = False"),
       Ret,
       Do("USE_LVM = True"),
       Input("disk"),
       Run("cryptsetup -v --cipher aes-xts-plain64 --key-size 256 -y luksFormat {disk}"),
       Run("cryptsetup open --type luks {disk} cryptcontainer"),
       Run("pvcreate /dev/mapper/cryptcontainer"),
       Run("vgcreate vg0 /dev/mapper/cryptcontainer"),
       Input("swap_size"),
       Run("lvcreate --size 50G vg0 --name root"),
       Run("lvcreate --extents 100%FREE vg0 --name home"),
       If("swap_size != '0'", 3),
       Run("lvcreate --size {swap_size} vg0 --name swap"),
       Do("DEVICES[swap] = '/dev/vg0/swap'"),
       Jump(1),
       Do("DEVICES[swap] = ''"),
       Do("DEVICES[root] = '/dev/vg0/root'"),
       Do("DEVICES[home] = '/dev/vg0/home'"),
       Run("lvdisplay"),
       Pause >>

create_filesystems ==
    << Run("mkfs.vfat -F32 {DEVICES['efi']}"),
       If("DEVICES[root]", 1),
       Run("mkfs.ext4 {DEVICES['root']}"),
       If("DEVICES[home]", 1),
       Run("mkfs.ext4 {DEVICES['home']}"),
       If("DEVICES[swap]", 1),
       Run("mkswap {DEVICES['swap']}"),
       Pause >>

mount_filesystems ==
    << Run("mkdir -p /mnt/gentoo"),
       Run("mount {DEVICES['root']} /mnt/gentoo"),
       Run("mkdir -p /mnt/gentoo/boot"),
       Run("mount {DEVICES['efi']} /mnt/gentoo/boot"),
       If("DEVICES[home]", 2),
       Run("mkdir -p /mnt/gentoo/home"),
       Run("mount {DEVICES['home']} /mnt/gentoo/home"),
       If("DEVICES[swap]", 1),
       Run("swapon {DEVICES['swap']}"),
       Pause >>

set_time ==
    << Run("date"),
       Input("tz"),
       Env("shutil.which('ntpdate')", 2),
       Run("ntpdate pool.ntp.org"),
       Jump(4),
       Input("manual"),
       If("manual == 'y'", 2),
       Input("date_str"),
       RunNC("date {date_str}"),
       Pause >>

ensure_make_conf ==
    << OpenW("/mnt/gentoo/etc/portage/make.conf") >>

ensure_package_dirs ==
    << Do("os.makedirs(/mnt/gentoo/etc/portage/...)") >>

add_package_use ==
    << Call("ensure_package_dirs") >>

cleanup_temp_files ==
    << Env("os.path.exists('/var/tmp/portage')", 1),
       Sub("rm -rf /var/tmp/portage/*"),
       Env("os.path.exists('/mnt/gentoo/var/tmp/portage')", 1),
       Sub("rm -rf /mnt/gentoo/var/tmp/portage/*") >>

\* Mutant: make.conf is written before the variant is asked for.
install_stage3_conf_first ==
    << Call("ensure_make_conf"),
       Input("choice"),
       Env("urlopen(url) succeeded", 4),
       Env("not matches", 1),
       Ret,
       Run("cd /mnt/gentoo && curl -O -L {stage3_url}"),
       Run("cd /mnt/gentoo && tar xvf {stage3_file} --xattrs"),
       Call("ensure_package_dirs"),
       Call("cleanup_temp_files"),
       Pause >>

install_stage3 ==
    << Input("choice"),
       Env("urlopen(url) succeeded", 4),
       Env("not matches", 1),
       Ret,
       Run("cd /mnt/gentoo && curl -O -L {stage3_url}"),
       Run("cd /mnt/gentoo && tar xvf {stage3_file} --xattrs"),
       Call("ensure_make_conf"),
       Call("ensure_package_dirs"),
       Call("cleanup_temp_files"),
       Pause >>

\* lines 401-408 append to make.conf under /mnt/gentoo/etc/portage if that
\* exists, and to the host's /etc/portage/make.conf otherwise; the host is taken
\* to be a Gentoo install medium, where /etc/portage exists.
setup_binpkg ==
    << YesNo("Do you want to enable binary package support (binpkg)?", 1),
       Jump(1),
       Ret >>

configure_make_conf ==
    << Run("nano -w /mnt/gentoo/etc/portage/make.conf"),
       Pause >>

select_mirrors ==
    << Run("mirrorselect -D -s4 -o >> /mnt/gentoo/etc/portage/make.conf"),
       Pause >>

configure_repos ==
    << Run("mkdir -p /mnt/gentoo/etc/portage/repos.conf"),
       Run("cp /mnt/gentoo/usr/share/portage/config/repos.conf /mnt/gentoo/etc/portage/repos.conf/gentoo.conf"),
       Pause >>

copy_dns ==
    << Run("cp --dereference /etc/resolv.conf /mnt/gentoo/etc/"),
       Pause >>

mount_pseudo ==
    << Run("mount --types proc /proc /mnt/gentoo/proc"),
       Run("mount --rbind /sys /mnt/gentoo/sys"),
       Run("mount --make-rslave /mnt/gentoo/sys"),
       Run("mount --rbind /dev /mnt/gentoo/dev"),
       Run("mount --make-rslave /mnt/gentoo/dev"),
       Run("mount --bind /run /mnt/gentoo/run"),
       Run("mount --make-slave /mnt/gentoo/run"),
       Pause >>

chroot_check ==
    "chroot /mnt/gentoo /bin/bash -c 'python3 /root/check_portage_tmpdir.py || (echo [FATAL]; exit 1) && source /etc/profile; export PS1'"

chroot_fix_tmp ==
    "chroot /mnt/gentoo /bin/bash -c 'python3 -c fix()'"

chroot_env ==
    << Run(chroot_check),
       Run(chroot_fix_tmp),
       Pause >>

emerge_sync ==
    << Run("emerge --sync"),
       Pause >>

\* Mutant: select_profile asks for the variant again and assigns INIT_SYSTEM.
select_profile_asks_variant ==
    << Input("choice"),
       If("INIT_SYSTEM", 4),
       Sub("eselect profile list | grep {INIT_SYSTEM}"),
       Env("not filtered", 1),
       Run("eselect profile list"),
       Jump(1),
       Run("eselect profile list"),
       Input("idx"),
       Run("eselect profile set {idx}"),
       Pause >>

select_profile ==
    << If("INIT_SYSTEM", 4),
       Sub("eselect profile list | grep {INIT_SYSTEM}"),
       Env("not filtered", 1),
       Run("eselect profile list"),
       Jump(1),
       Run("eselect profile list"),
       Input("idx"),
       Run("eselect profile set {idx}"),
       Pause >>

ensure_toolchain_and_headers ==
    << Run("emerge --ask sys-kernel/linux-headers"),
       Run("emerge --ask sys-devel/autoconf sys-devel/automake sys-devel/libtool") >>

configure_use_flags ==
    << Call("ensure_toolchain_and_headers"),
       Run("emerge app-portage/eix app-portage/ufed"),
       Run("ufed"),
       Pause >>

configure_cpu_flags ==
    << Run("emerge --ask app-portage/cpuid2cpuflags"),
       Run("echo '*/* $(cpuid2cpuflags)' > /etc/portage/package.use/00cpu-flags"),
       Run("nano /etc/portage/make.conf"),
       Pause >>

ensure_gcc_openmp ==
    << Call("add_package_use"),
       Run("emerge --ask --oneshot sys-devel/gcc"),
       Sub("gcc-config -l | tail -n1 | awk '{print $2}'"),
       Env("gcc_profile", 3),
       Run("gcc-config {gcc_profile}"),
       Run("env-update"),
       Run("source /etc/profile"),
       Sub("gcc -v 2>&1 | grep enable-libgomp") >>

ensure_kernel_sources ==
    << Run("emerge --ask sys-kernel/gentoo-sources"),
       RunNC("eselect kernel list"),
       Input("idx"),
       Run("eselect kernel set {idx}") >>

update_world ==
    << Call("ensure_gcc_openmp"),
       Call("ensure_kernel_sources"),
       Call("ensure_toolchain_and_headers"),
       Call("cleanup_temp_files"),
       Run("emerge --ask --verbose --update --deep --newuse @world"),
       Call("cleanup_temp_files"),
       Pause >>

configure_base_system ==
    << Run("nano /etc/portage/make.conf"),
       Run("tzselect"),
       Run("ln -sf /usr/share/zoneinfo/Europe/Berlin /etc/localtime"),
       Run("nano -w /etc/locale.gen"),
       Run("locale-gen"),
       Run("eselect locale list"),
       Input("idx"),
       Run("eselect locale set {idx}"),
       Run("env-update && source /etc/profile && export PS1"),
       Pause >>

install_kernel ==
    << Run("emerge --ask sys-kernel/gentoo-sources"),
       Run("eselect kernel list"),
       Input("idx"),
       Run("eselect kernel set {idx}"),
       Run("emerge --ask sys-kernel/linux-firmware"),
       YesNo("Use genkernel for kernel build?", 4),
       Run("emerge --ask sys-kernel/genkernel"),
       Run("nano -w /etc/genkernel.conf"),
       Run("genkernel all"),
       Jump(5),
       Run("emerge --ask sys-apps/pciutils"),
       Run("cd /usr/src/linux && make menuconfig"),
       Run("cd /usr/src/linux && make && make modules_install && make install"),
       Run("emerge --ask sys-kernel/dracut"),
       Run("dracut --kver=$(ls /lib/modules | tail -n1)"),
       Pause >>

configure_lvm ==
    << Run("emerge --ask sys-fs/lvm2"),
       Run("nano -w /etc/lvm/lvm.conf"),
       Pause >>

configure_fstab ==
    << Run("blkid {DEVICES['root']}"),
       If("DEVICES[home]", 1),
       Run("blkid {DEVICES['home']}"),
       If("DEVICES[swap]", 1),
       Run("blkid {DEVICES['swap']}"),
       Run("nano -w /etc/fstab"),
       Pause >>

configure_mtab ==
    << Run("ln -sf /proc/self/mounts /etc/mtab"),
       Pause >>

install_bootloader ==
    << Run("emerge --ask sys-libs/efivar"),
       Run("efivar -l"),
       Run("mount | grep boot"),
       Run("bootctl --path=/boot install"),
       Run("nano -w /boot/loader/entries/gentoo.conf"),
       Run("nano -w /boot/loader/loader.conf"),
       Run("emerge --ask sys-boot/efibootmgr"),
       Run("efibootmgr -v"),
       YesNo("Delete all old boot entries?", 3),
       Input("entry"),
       Env("entry", 1),
       Run("efibootmgr -b {entry} -B"),
       Run("efibootmgr -c -d /dev/sda -p 1 -L 'Gentoo' -l '\\efi\\boot\\bootx64.efi'"),
       Pause >>

enable_lvm2 ==
    << Run("systemctl enable lvm2-lvmetad.service"),
       Pause >>

set_root_password ==
    << Run("passwd"),
       Pause >>

add_user ==
    << Input("username"),
       Run("useradd -m -G users,wheel,audio,video,usb -s /bin/bash {username}"),
       Run("passwd {username}"),
       Run("emerge --ask app-admin/sudo"),
       Run("visudo"),
       Pause >>

configure_network ==
    << YesNo("Use systemd-networkd?", 4),
       Run("nano -w /etc/systemd/network/50-dhcp.network"),
       Run("systemctl enable systemd-networkd.service"),
       Run("systemctl start systemd-networkd.service"),
       Jump(2),
       Run("emerge --ask networkmanager"),
       Run("nmtui"),
       Pause >>

configure_locale ==
    << Run("localectl set-locale LANG=en_US.utf8"),
       Run("localectl set-keymap us"),
       Run("localectl set-x11-keymap us"),
       Pause >>

configure_time ==
    << Run("timedatectl set-ntp true"),
       Run("timedatectl status"),
       Run("nano -w /etc/systemd/timesyncd.conf"),
       Pause >>

post_install ==
    << Run("emerge --ask sys-apps/mlocate"),
       Run("emerge --ask sys-fs/xfsprogs sys-fs/exfat-utils sys-fs/dosfstools sys-fs/ntfs3g"),
       Run("emerge --ask app-admin/sudo"),
       Run("emerge --ask sys-power/powertop"),
       Run("nano -w /etc/systemd/system/powertop.service"),
       Run("systemctl enable powertop.service"),
       Run("nano -w /etc/portage/make.conf"),
       Run("nano -w /etc/X11/xorg.conf.d/20-intel.conf"),
       Run("nano -w /etc/portage/make.conf"),
       Run("emerge --ask xorg-server"),
       Run("emerge --ask app-admin/ccze ... x11-terms/rxvt-unicode"),
       Run("echo 'PORTAGE_NICENESS=15' >> /etc/portage/make.conf"),
       Run("nano -w /etc/portage/make.conf"),
       Run("nano -w /etc/portage/package.accept_keywords"),
       Run("nano -w /etc/portage/package.unmask"),
       Run("nano -w /etc/portage/package.mask"),
       Run("emerge --ask app-portage/layman"),
       Run("layman -L"),
       Run("layman -a <overlay_name>"),
       Run("layman -S"),
       Run("mkdir -p /usr/local/portage/{metadata,profiles}"),
       Run("echo '<overlay_name>' > /usr/local/portage/profiles/repo_name"),
       Run("echo 'masters = gentoo' > /usr/local/portage/metadata/layout.conf"),
       Run("chown -R portage:portage /usr/local/portage"),
       Run("mkdir -p /etc/portage/repos.conf"),
       Run("nano -w /etc/portage/repos.conf/local.conf"),
       Run("grep --color -E 'vmx|svm' /proc/cpuinfo"),
       Run("ls /dev/kvm"),
       Run("emerge --askv app-emulation/qemu"),
       Run("gpasswd -a <username> kvm"),
       Run("systemctl enable libvirtd.service"),
       Run("emerge --askv prelink"),
       Run("env-update"),
       Run("nano /etc/prelink.conf"),
       Run("prelink -amR"),
       Pause >>

\* Mutant: the question is asked whatever USE_LVM is.
ConfigureLvmGate_dropped == Jump(0)

\* main, line 881: `if USE_LVM and yesno("Configure LVM?"): configure_lvm()`
ConfigureLvmGate == If("USE_LVM", 2)

\* Mutant: the device roles are not asked for.
PromptDevices_dropped == Jump(0)

\* main, line 858: called whatever the answer to "Partition disk?" was
PromptDevices == Call("prompt_device_paths")

main ==
    << Call("require_root"),
       Call("remount_tmpfs_if_needed"),
       YesNo("Partition disk?", 1), Call("partition_disk"),
       PromptDevices,
       YesNo("Setup LUKS and LVM?", 1), Call("setup_luks_lvm"),
       YesNo("Create filesystems?", 1), Call("create_filesystems"),
       YesNo("Mount filesystems?", 1), Call("mount_filesystems"),
       YesNo("Set date/time?", 1), Call("set_time"),
       YesNo("Install stage3?", 1), Call("install_stage3"),
       Call("setup_binpkg"),
       YesNo("Configure make.conf?", 1), Call("configure_make_conf"),
       YesNo("Select mirrors?", 1), Call("select_mirrors"),
       YesNo("Configure repos?", 1), Call("configure_repos"),
       YesNo("Copy DNS info?", 1), Call("copy_dns"),
       YesNo("Mount pseudo filesystems?", 1), Call("mount_pseudo"),
       Call("remount_tmpfs_if_needed"),
       YesNo("Chroot into environment?", 1), Call("chroot_env"),
       YesNo("Sync portage tree?", 1), Call("emerge_sync"),
       YesNo("Select portage profile?", 1), Call("select_profile"),
       YesNo("Configure USE flags?", 1), Call("configure_use_flags"),
       YesNo("Configure CPU flags?", 1), Call("configure_cpu_flags"),
       YesNo("Update @world?", 1), Call("update_world"),
       YesNo("Configure base system?", 1), Call("configure_base_system"),
       YesNo("Install kernel?", 1), Call("install_kernel"),
       ConfigureLvmGate, YesNo("Configure LVM?", 1), Call("configure_lvm"),
       YesNo("Configure fstab?", 1), Call("configure_fstab"),
       YesNo("Configure mtab?", 1), Call("configure_mtab"),
       YesNo("Install bootloader?", 1), Call("install_bootloader"),
       YesNo("Enable lvm2?", 1), Call("enable_lvm2"),
       YesNo("Set root password?", 1), Call("set_root_password"),
       YesNo("Add user?", 1), Call("add_user"),
       YesNo("Configure network?", 1), Call("configure_network"),
       YesNo("Configure locale?", 1), Call("configure_locale"),
       YesNo("Configure time?", 1), Call("configure_time"),
       YesNo("Post-install steps?", 1), Call("post_install") >>

Body(fn) ==
    CASE fn = "main" -> main
      [] fn = "require_root" -> require_root
      [] fn = "remount_tmpfs_if_needed" -> remount_tmpfs_if_needed
      [] fn = "prompt_device_paths" -> prompt_device_paths
      [] fn = "unmount_partitions" -> unmount_partitions
      [] fn = "partition_disk" -> partition_disk
      [] fn = "setup_luks_lvm" -> setup_luks_lvm
      [] fn = "create_filesystems" -> create_filesystems
      [] fn = "mount_filesystems" -> mount_filesystems
      [] fn = "set_time" -> set_time
      [] fn = "ensure_make_conf" -> ensure_make_conf
      [] fn = "ensure_package_dirs" -> ensure_package_dirs
      [] fn = "add_package_use" -> add_package_use
      [] fn = "cleanup_temp_files" -> cleanup_temp_files
      [] fn = "install_stage3" -> install_stage3
      [] fn = "setup_binpkg" -> setup_binpkg
      [] fn = "configure_make_conf" -> configure_make_conf
      [] fn = "select_mirrors" -> select_mirrors
      [] fn = "configure_repos" -> configure_repos
      [] fn = "copy_dns" -> copy_dns
      [] fn = "mount_pseudo" -> mount_pseudo
      [] fn = "chroot_env" -> chroot_env
      [] fn = "emerge_sync" -> emerge_sync
      [] fn = "select_profile" -> select_profile
      [] fn = "ensure_toolchain_and_headers" -> ensure_toolchain_and_headers
      [] fn = "configure_use_flags" -> configure_use_flags
      [] fn = "configure_cpu_flags" -> configure_cpu_flags
      [] fn = "ensure_gcc_openmp" -> ensure_gcc_openmp
      [] fn = "ensure_kernel_sources" -> ensure_kernel_sources
      [] fn = "update_world" -> update_world
      [] fn = "configure_base_system" -> configure_base_system
      [] fn = "install_kernel" -> install_kernel
      [] fn = "configure_lvm" -> configure_lvm
      [] fn = "configure_fstab" -> configure_fstab
      [] fn = "configure_mtab" -> configure_mtab
      [] fn = "install_bootloader" -> install_bootloader
      [] fn = "enable_lvm2" -> enable_lvm2
      [] fn = "set_root_password" -> set_root_password
      [] fn = "add_user" -> add_user
      [] fn = "configure_network" -> configure_network
      [] fn = "configure_locale" -> configure_locale
      [] fn = "configure_time" -> configure_time
      [] fn = "post_install" -> post_install

(***************************************************************************)
(* The state of the process.                                               *)
(***************************************************************************)
Top == stack[Len(stack)]

AtEnd == Top.pc > Len(Body(Top.fn))

Cur == Body(Top.fn)[Top.pc]

\* The running process is about to execute a step of kind k.
At(k) == running /\ mode = "step" /\ ~AtEnd /\ Cur.op = k

Goto(n) == stack' = [stack EXCEPT ![Len(stack)].pc = n]

Skip(n) == Goto(Top.pc + 1 + n)

OnStack(fn) == \E i \in 1..Len(stack) : stack[i].fn = fn

\* Python's truth value of a string
Truthy(s) == s # ""

\* Python's `a or b` on strings
Or(a, b) == IF Truthy(a) THEN a ELSE b

Cond(c) ==
    CASE c = "os.geteuid() != 0" -> euid # 0
      [] c = "USE_LVM" -> USE_LVM
      [] c = "DEVICES[root]" -> Truthy(DEVICES.root)
      [] c = "DEVICES[home]" -> Truthy(DEVICES.home)
      [] c = "DEVICES[swap]" -> Truthy(DEVICES.swap)
      [] c = "swap_size != '0'" -> swap_size # "0"
      [] c = "INIT_SYSTEM" -> INIT_SYSTEM # "None"
      [] c = "manual == 'y'" -> manual = "y"

(***************************************************************************)
(* yesno: the answer is stripped and lowered; y/yes is True, n/no is       *)
(* False, and anything else asks again.                                    *)
(***************************************************************************)
yesno(line) ==
    LET ans == lower(strip(line)) IN
    CASE ans \in {"y", "yes"} -> "True"
      [] ans \in {"n", "no"} -> "False"
      [] OTHER -> "again"

(***************************************************************************)
(* install_stage3, lines 290-313: the init system of the chosen variant.   *)
(***************************************************************************)
ChoiceLines == {"", "1", " 2", "3", "4 ", "5"}

\* Mutant: the desktop variants fall through to the default branch.
InitSystemOf_desktop_default(line) ==
    LET ch == Or(strip(line), "1") IN
    CASE ch = "1" -> "systemd"
      [] ch = "2" -> "openrc"
      [] OTHER -> "systemd"

InitSystemOf(line) ==
    LET ch == Or(strip(line), "1") IN
    CASE ch = "1" -> "systemd"
      [] ch = "2" -> "openrc"
      [] ch = "3" -> "systemd"
      [] ch = "4" -> "openrc"
      [] OTHER -> "systemd"

\* lines 292-312: the prefix of the file names of the chosen variant
PrefixOf(ch) ==
    CASE ch = "1" -> "stage3-amd64-systemd-"
      [] ch = "2" -> "stage3-amd64-openrc-"
      [] ch = "3" -> "stage3-amd64-systemd-desktop-"
      [] ch = "4" -> "stage3-amd64-openrc-desktop-"
      [] OTHER -> "stage3-amd64-systemd-"

(***************************************************************************)
(* install_stage3, lines 314-325:                                          *)
(*   matches = re.findall(rf'({prefix}[\w\d\-]+{re.escape(suffix)})', html) *)
(*   stage3_file = matches[-1]                                             *)
(* The listing is kept as the sequence of the names in it, in its order;   *)
(* the names hold no character outside CodePoints.                         *)
(***************************************************************************)
\* the characters of the names, in code point order
CodePoints == "-.0123456789ABCDEFGHIJKLMNOPQRSTUVWXYZ_abcdefghijklmnopqrstuvwxyz"

\* the characters [\w\d\-] matches
WordChars == { SubSeq(CodePoints, i, i) : i \in 1..Len(CodePoints) } \ {"."}

suffix == ".tar.xz"

\* the first position from i on that holds no word character
RECURSIVE WordRun(_, _)
WordRun(name, i) ==
    IF i <= Len(name) /\ SubSeq(name, i, i) \in WordChars THEN WordRun(name, i + 1) ELSE i

\* The match of the pattern that starts at position i, "" if there is none.
\* [\w\d\-]+ takes every word character that follows the prefix, and giving
\* some back never helps: the suffix starts with a dot.
MatchAt(prefix, name, i) ==
    LET j == i + Len(prefix)
        k == WordRun(name, j)
        e == k + Len(suffix) - 1
    IN  IF /\ j - 1 <= Len(name) /\ SubSeq(name, i, j - 1) = prefix
           /\ k > j
           /\ e <= Len(name) /\ SubSeq(name, k, e) = suffix
        THEN SubSeq(name, i, e) ELSE ""

\* re.findall within one name: leftmost matches, not overlapping
RECURSIVE FindInName(_, _, _)
FindInName(prefix, name, i) ==
    IF i > Len(name) THEN <<>>
    ELSE LET m == MatchAt(prefix, name, i) IN
         IF m = "" THEN FindInName(prefix, name, i + 1)
         ELSE <<m>> \o FindInName(prefix, name, i + Len(m))

RECURSIVE findall(_, _)
findall(prefix, listing) ==
    IF listing = <<>> THEN <<>>
    ELSE FindInName(prefix, Head(listing), 1) \o findall(prefix, Tail(listing))

\* matches[-1]
LastOf(matches) == matches[Len(matches)]

\* What the server may list.
MaxListing == 3

ListedNames ==
    { "stage3-amd64-systemd-20240101T170410Z.tar.xz",
      "stage3-amd64-systemd-20240108T170410Z.tar.xz",
      "stage3-amd64-systemd-20240108T170410Z.tar.xz.asc",
      "stage3-amd64-openrc-20240108T170410Z.tar.xz",
      "latest-stage3-amd64-systemd.txt" }

Listings == UNION { [1..n -> ListedNames] : n \in 0..MaxListing }

(***************************************************************************)
(* chroot_env, lines 448-453: the exit status of                           *)
(*   chroot /mnt/gentoo /bin/bash -c 'A || (B; exit 1) && C; D'            *)
(* with A the guard script, C `source /etc/profile` and D `export PS1=..`. *)
(* The shell runs the and-or list A || (..) && C, and then D; the status   *)
(* of the script is that of D, the last command executed.                  *)
(***************************************************************************)
ShOr(a, b) == IF a = 0 THEN 0 ELSE b
ShAnd(a, b) == IF a = 0 THEN b ELSE a
ShSeq(a, b) == b

ChrootCheckStatus(chrootOk, A, C, D) ==
    IF ~chrootOk THEN 127
    ELSE ShSeq(ShAnd(ShOr(A, 1), C), D)

(***************************************************************************)
(* Actions: one per kind of step.                                          *)
(***************************************************************************)
\* The step returns nothing that the history variables note.
NoResult == answer' = "none" /\ quiet' = FALSE

StepCall ==
    /\ At("call")
    /\ stack' = Append(stack, [fn |-> Cur.fn, pc |-> 1])
    /\ UNCHANGED <<mode, cmd, running, exitStatus, USE_LVM, DEVICES, INIT_SYSTEM,
                   swap_size, euid, portageDir, aborted, guard>>
    /\ devicePrompts' = IF Cur.fn = "prompt_device_paths" THEN devicePrompts + 1
                        ELSE devicePrompts
    /\ UNCHANGED <<choice, manual, printed>>
    /\ NoResult
    /\ UNCHANGED <<make_conf, tmpdirFixes>>
    /\ UNCHANGED <<guardVars, listingVars, chrootVerdict>>

\* A function returns to its caller, which goes on after the call.
StepReturn ==
    /\ running /\ mode = "step"
    /\ IF AtEnd THEN TRUE ELSE Cur.op = "return"
    /\ Len(stack) > 1
    /\ stack' = [SubSeq(stack, 1, Len(stack) - 1) EXCEPT ![Len(stack) - 1].pc = @ + 1]
    /\ swap_size' = IF Top.fn = "setup_luks_lvm" THEN "" ELSE swap_size
    /\ UNCHANGED <<mode, cmd, running, exitStatus, USE_LVM, DEVICES, INIT_SYSTEM,
                   euid, portageDir, aborted, guard>>
    /\ choice' = IF Top.fn = "install_stage3" THEN "None" ELSE choice
    /\ manual' = IF Top.fn = "set_time" THEN "None" ELSE manual
    /\ UNCHANGED <<printed, devicePrompts>>
    /\ NoResult
    /\ UNCHANGED <<make_conf, tmpdirFixes>>
    /\ UNCHANGED <<guardVars, listingVars, chrootVerdict>>

\* main returns: the interpreter exits with status 0.
MainEnd ==
    /\ running /\ mode = "step"
    /\ AtEnd
    /\ Len(stack) = 1
    /\ running' = FALSE
    /\ exitStatus' = 0
    /\ UNCHANGED <<stack, mode, cmd, USE_LVM, DEVICES, INIT_SYSTEM,
                   swap_size, euid, portageDir, aborted, guard>>
    /\ UNCHANGED <<choice, manual, printed, devicePrompts>>
    /\ NoResult
    /\ UNCHANGED <<make_conf, tmpdirFixes>>
    /\ UNCHANGED <<guardVars, listingVars, chrootVerdict>>

\* sys.exit(n)
StepExit ==
    /\ At("exit")
    /\ running' = FALSE
    /\ exitStatus' = Cur.status
    /\ UNCHANGED <<stack, mode, cmd, USE_LVM, DEVICES, INIT_SYSTEM,
                   swap_size, euid, portageDir, aborted, guard>>
    /\ UNCHANGED <<choice, manual, printed, devicePrompts>>
    /\ NoResult
    /\ UNCHANGED <<make_conf, tmpdirFixes>>
    /\ UNCHANGED <<guardVars, listingVars, chrootVerdict>>

StepIf ==
    /\ At("if")
    /\ IF Cond(Cur.cond) THEN Skip(0) ELSE Skip(Cur.skip)
    /\ UNCHANGED <<mode, cmd, running, exitStatus, USE_LVM, DEVICES, INIT_SYSTEM,
                   swap_size, euid, portageDir, aborted, guard>>
    /\ UNCHANGED <<choice, manual, printed, devicePrompts>>
    /\ NoResult
    /\ UNCHANGED <<make_conf, tmpdirFixes>>
    /\ UNCHANGED <<guardVars, listingVars, chrootVerdict>>

StepEnv ==
    /\ At("env")
    /\ \E b \in BOOLEAN : IF b THEN Skip(0) ELSE Skip(Cur.skip)
    /\ UNCHANGED <<mode, cmd, running, exitStatus, USE_LVM, DEVICES, INIT_SYSTEM,
                   swap_size, euid, portageDir, aborted, guard>>
    /\ UNCHANGED <<choice, manual, printed, devicePrompts>>
    /\ NoResult
    /\ UNCHANGED <<make_conf, tmpdirFixes>>
    /\ UNCHANGED <<guardVars, listingVars, chrootVerdict>>

StepJump ==
    /\ At("jump")
    /\ Skip(Cur.skip)
    /\ UNCHANGED <<mode, cmd, running, exitStatus, USE_LVM, DEVICES, INIT_SYSTEM,
                   swap_size, euid, portageDir, aborted, guard>>
    /\ UNCHANGED <<choice, manual, printed, devicePrompts>>
    /\ NoResult
    /\ UNCHANGED <<make_conf, tmpdirFixes>>
    /\ UNCHANGED <<guardVars, listingVars, chrootVerdict>>

\* pause(): input("Press Enter to continue...")
StepPause ==
    /\ At("pause")
    /\ Skip(0)
    /\ UNCHANGED <<mode, cmd, running, exitStatus, USE_LVM, DEVICES, INIT_SYSTEM,
                   swap_size, euid, portageDir, aborted, guard>>
    /\ UNCHANGED <<choice, manual, printed, devicePrompts>>
    /\ NoResult
    /\ UNCHANGED <<make_conf, tmpdirFixes>>
    /\ UNCHANGED <<guardVars, listingVars, chrootVerdict>>

\* if yesno(q): ...
StepYesNo ==
    /\ At("yesno")
    /\ \E line \in YesNoLines :
         CASE yesno(line) = "True" -> Skip(0) /\ answer' = "True"
           [] yesno(line) = "False" -> Skip(Cur.skip) /\ answer' = "False"
           [] OTHER -> UNCHANGED stack /\ answer' = "none"
    /\ UNCHANGED <<mode, cmd, running, exitStatus, USE_LVM, DEVICES, INIT_SYSTEM,
                   swap_size, euid, portageDir, aborted, guard>>
    /\ quiet' = FALSE
    /\ UNCHANGED <<choice, manual, printed, devicePrompts>>
    /\ UNCHANGED <<make_conf, tmpdirFixes>>
    /\ UNCHANGED <<guardVars, listingVars, chrootVerdict>>

\* x = input(...).strip(), for each x the model keeps
StepInput ==
    /\ At("input")
    /\ Skip(0)
    /\ CASE Cur.var = "efi" ->
              /\ \E line \in EfiLines : DEVICES' = [DEVICES EXCEPT !.efi = strip(line)]
              /\ UNCHANGED <<swap_size, INIT_SYSTEM, choice, manual>>
         [] Cur.var = "root" ->
              /\ \E line \in RootLines : DEVICES' = [DEVICES EXCEPT !.root = strip(line)]
              /\ UNCHANGED <<swap_size, INIT_SYSTEM, choice, manual>>
         [] Cur.var = "home" ->
              /\ \E line \in HomeLines : DEVICES' = [DEVICES EXCEPT !.home = strip(line)]
              /\ UNCHANGED <<swap_size, INIT_SYSTEM, choice, manual>>
         [] Cur.var = "swap" ->
              /\ \E line \in SwapLines : DEVICES' = [DEVICES EXCEPT !.swap = strip(line)]
              /\ UNCHANGED <<swap_size, INIT_SYSTEM, choice, manual>>
         [] Cur.var = "swap_size" ->
              /\ \E line \in SwapSizeLines : swap_size' = Or(strip(line), "4G")
              /\ UNCHANGED <<DEVICES, INIT_SYSTEM, choice, manual>>
         [] Cur.var = "choice" ->
              /\ \E line \in ChoiceLines :
                   /\ choice' = Or(strip(line), "1")
                   /\ INIT_SYSTEM' = InitSystemOf(line)
              /\ UNCHANGED <<DEVICES, swap_size, manual>>
         [] Cur.var = "manual" ->
              /\ \E line \in YesNoLines : manual' = lower(strip(line))
              /\ UNCHANGED <<DEVICES, swap_size, INIT_SYSTEM, choice>>
         [] OTHER -> UNCHANGED <<DEVICES, swap_size, INIT_SYSTEM, choice, manual>>
    /\ UNCHANGED <<mode, cmd, running, exitStatus, USE_LVM, euid, portageDir, aborted, guard>>
    /\ UNCHANGED <<printed, devicePrompts>>
    /\ NoResult
    /\ UNCHANGED <<make_conf, tmpdirFixes>>
    /\ UNCHANGED <<guardVars, listingVars, chrootVerdict>>

\* Mutants: an assignment that leaves the path collected earlier in place.
LvmRoot_kept == DEVICES.root
LvmHome_kept == DEVICES.home

\* setup_luks_lvm, lines 144-150: what the function leaves in DEVICES
LvmSwap(size) == IF size # "0" THEN "/dev/vg0/swap" ELSE ""
LvmRoot == "/dev/vg0/root"
LvmHome == "/dev/vg0/home"

StepAssign ==
    /\ At("assign")
    /\ Skip(0)
    /\ CASE Cur.eff = "USE_LVM = False" ->
              /\ USE_LVM' = FALSE
              /\ UNCHANGED <<DEVICES, portageDir>>
         [] Cur.eff = "USE_LVM = True" ->
              /\ USE_LVM' = TRUE
              /\ UNCHANGED <<DEVICES, portageDir>>
         [] Cur.eff = "DEVICES[home] = ''" ->
              /\ DEVICES' = [DEVICES EXCEPT !.home = ""]
              /\ UNCHANGED <<USE_LVM, portageDir>>
         [] Cur.eff = "DEVICES[swap] = ''" ->
              /\ DEVICES' = [DEVICES EXCEPT !.swap = ""]
              /\ UNCHANGED <<USE_LVM, portageDir>>
         [] Cur.eff = "DEVICES[swap] = '/dev/vg0/swap'" ->
              /\ DEVICES' = [DEVICES EXCEPT !.swap = LvmSwap(swap_size)]
              /\ UNCHANGED <<USE_LVM, portageDir>>
         [] Cur.eff = "DEVICES[root] = '/dev/vg0/root'" ->
              /\ DEVICES' = [DEVICES EXCEPT !.root = LvmRoot]
              /\ UNCHANGED <<USE_LVM, portageDir>>
         [] Cur.eff = "DEVICES[home] = '/dev/vg0/home'" ->
              /\ DEVICES' = [DEVICES EXCEPT !.home = LvmHome]
              /\ UNCHANGED <<USE_LVM, portageDir>>
         [] Cur.eff = "os.makedirs(/mnt/gentoo/etc/portage/...)" ->
              /\ portageDir' = TRUE
              /\ UNCHANGED <<USE_LVM, DEVICES>>
    /\ UNCHANGED <<mode, cmd, running, exitStatus, INIT_SYSTEM, swap_size, euid, aborted, guard>>
    /\ UNCHANGED <<choice, manual, printed, devicePrompts>>
    /\ NoResult
    /\ UNCHANGED <<make_conf, tmpdirFixes>>
    /\ UNCHANGED <<guardVars, listingVars, chrootVerdict>>

\* ensure_make_conf, line 211: the USE flags by init system
use_flags(init_system) ==
    IF init_system = "systemd"
    THEN "openmp systemd tkip gnome -ios -ipod -ibm pipewire -pulseaudio"
    ELSE "openrc tkip gnome -ios -ipod -ibm pipewire -pulseaudio"

\* open(path, "w") with no handler around it: FileNotFoundError when the directory
\* is missing, which ends the process with a traceback and status 1.
StepOpenW ==
    /\ At("open_w")
    /\ IF portageDir
       THEN /\ Skip(0)
            /\ make_conf' = use_flags(INIT_SYSTEM)
            /\ UNCHANGED <<running, exitStatus>>
       ELSE /\ running' = FALSE
            /\ exitStatus' = 1
            /\ UNCHANGED <<stack, make_conf>>
    /\ UNCHANGED <<mode, cmd, USE_LVM, DEVICES, INIT_SYSTEM,
                   swap_size, euid, portageDir, aborted, guard>>
    /\ UNCHANGED <<choice, manual, printed, devicePrompts>>
    /\ NoResult
    /\ UNCHANGED tmpdirFixes
    /\ UNCHANGED <<guardVars, listingVars, chrootVerdict>>

\* run_cmd, lines 25-27 (and the direct subprocess calls): the command starts.
StartCmd ==
    /\ At("run_cmd") \/ At("subprocess")
    /\ mode' = "exec"
    /\ cmd' = Cur.cmd
    /\ UNCHANGED <<stack, running, exitStatus, USE_LVM, DEVICES, INIT_SYSTEM,
                   swap_size, euid, portageDir, aborted, guard>>
    /\ printed' = IF Cur.op = "run_cmd" THEN "[RUN] " \o Cur.cmd ELSE ""
    /\ UNCHANGED <<choice, manual, devicePrompts>>
    /\ NoResult
    /\ tmpdirFixes' = IF Cur.cmd = chroot_fix_tmp THEN tmpdirFixes + 1 ELSE tmpdirFixes
    /\ UNCHANGED make_conf
    /\ UNCHANGED <<guardVars, listingVars, chrootVerdict>>

\* What a finished command leaves behind: the stage3 tarball holds etc/portage.
AfterCmd(c, rc) ==
    portageDir' = IF c = "cd /mnt/gentoo && tar xvf {stage3_file} --xattrs" /\ rc = 0
                  THEN TRUE ELSE portageDir

\* run_cmd, lines 27-31: the command ends with status rc.  A failure under
\* check=True prints the error and asks "Continue anyway?"; everything else
\* returns to the caller.
run_cmd_returns(rc) ==
    /\ cmd' = ""
    /\ AfterCmd(cmd, rc)
    /\ IF Cur.op = "run_cmd" /\ Cur.check /\ rc # 0
       THEN /\ mode' = "ask"
            /\ printed' = "[ERROR] Command failed"
            /\ UNCHANGED stack
       ELSE /\ mode' = "step"
            /\ printed' = ""
            /\ Skip(0)
    /\ quiet' = (Cur.op = "run_cmd" /\ ~Cur.check /\ rc # 0)

EndCmd ==
    /\ running /\ mode = "exec"
    /\ cmd # chroot_check
    /\ \E rc \in {0, 1} : run_cmd_returns(rc)
    /\ UNCHANGED <<running, exitStatus, USE_LVM, DEVICES, INIT_SYSTEM,
                   swap_size, euid, aborted, guard>>
    /\ answer' = "none"
    /\ UNCHANGED <<choice, manual, devicePrompts>>
    /\ UNCHANGED <<make_conf, tmpdirFixes>>
    /\ UNCHANGED <<guardVars, listingVars, chrootVerdict>>

\* chroot_env, line 453: the guard script runs inside the chroot, if the chroot
\* itself can be entered.
EndChrootCheck ==
    /\ running /\ mode = "exec"
    /\ cmd = chroot_check
    /\ \E chrootOk \in BOOLEAN, A \in {0, 1}, C \in {0, 1} :
         /\ run_cmd_returns(ChrootCheckStatus(chrootOk, A, C, 0))
         /\ guard' = IF ~chrootOk THEN guard ELSE IF A = 0 THEN "ok" ELSE "fail"
    /\ UNCHANGED <<running, exitStatus, USE_LVM, DEVICES, INIT_SYSTEM,
                   swap_size, euid, aborted>>
    /\ answer' = "none"
    /\ UNCHANGED <<choice, manual, devicePrompts>>
    /\ UNCHANGED <<make_conf, tmpdirFixes>>
    /\ UNCHANGED <<guardVars, listingVars, chrootVerdict>>

\* Mutant: the answer no is recorded but the command's caller goes on.
run_cmd_answer_no_exit(ans) ==
    /\ mode' = "step"
    /\ Skip(0)
    /\ aborted' = (aborted \/ ans # "True")
    /\ UNCHANGED <<running, exitStatus>>

\* run_cmd, lines 31-33: yesno("Continue anyway?"); no is sys.exit(1)
run_cmd_answer(ans) ==
    IF ans = "True"
    THEN /\ mode' = "step"
         /\ Skip(0)
         /\ UNCHANGED <<running, exitStatus, aborted>>
    ELSE /\ running' = FALSE
         /\ exitStatus' = 1
         /\ aborted' = TRUE
         /\ UNCHANGED <<stack, mode>>

ContinueAnyway ==
    /\ running /\ mode = "ask"
    /\ \E line \in YesNoLines :
         IF yesno(line) = "again"
         THEN UNCHANGED <<stack, mode, running, exitStatus, aborted>>
         ELSE run_cmd_answer(yesno(line))
    /\ UNCHANGED <<cmd, USE_LVM, DEVICES, INIT_SYSTEM, swap_size, euid, portageDir, guard>>
    /\ printed' = IF mode' = "step" THEN "" ELSE printed
    /\ UNCHANGED <<choice, manual, devicePrompts>>
    /\ NoResult
    /\ UNCHANGED <<make_conf, tmpdirFixes>>
    /\ UNCHANGED <<guardVars, listingVars, chrootVerdict>>

(***************************************************************************)
(* check_portage_tmpdir, lines 737-781.                                    *)
(*                                                                         *)
(* The function reads the kind of file at tmpdir, the lines of             *)
(* /proc/mounts and os.statvfs(tmpdir).  A mount line is the list of its   *)
(* fields, <<device, mount point, type, ...>>.  statvfs counts are C       *)
(* unsigned longs and Python multiplies them exactly; f_bavail, which can  *)
(* exceed TLC's integers, is kept as [hi, lo] = hi * 2^30 + lo.    *)
(***************************************************************************)
GiB == 1024 * 1024 * 1024

\* os.path.exists, os.path.isdir (both follow links) and os.path.islink
Exists(kind) == kind \in {"dir", "file", "link_dir", "link_file"}
IsDir(kind) == kind \in {"dir", "link_dir"}
IsLink(kind) == kind \in {"link_dir", "link_file", "link_broken"}

\* str.startswith
startswith(s, prefix) ==
    /\ Len(prefix) <= Len(s)
    /\ SubSeq(s, 1, Len(prefix)) = prefix

VolatileFs == {"tmpfs", "overlay", "aufs", "ramfs"}

\* lines 760-770: the loop over the mount lines; sys.exit(1) at the first line
\* whose mount point the path starts with and whose type is volatile
RECURSIVE MountsLoop(_, _)
MountsLoop(path, mounts) ==
    IF mounts = <<>> THEN "pass"
    ELSE LET parts == Head(mounts) IN
         IF Len(parts) < 3 THEN MountsLoop(path, Tail(mounts))
         ELSE IF startswith(path, parts[2]) /\ parts[3] \in VolatileFs THEN "exit1"
         ELSE MountsLoop(path, Tail(mounts))

\* lines 756-774: an unreadable /proc/mounts is a warning only
MountsCheck(path, f) ==
    IF ~f.readable THEN "pass" ELSE MountsLoop(path, f.mounts)

\* line 777: free_gb = f_frsize * f_bavail / (1024**3), for f_frsize < 2^15.
\* The quotient is a float; below 2^53 bytes the division by a power of two is
\* exact, so free_gb is kept as its whole part and whether a fraction remains.
free_gb(f_frsize, f_bavail) ==
    LET l1 == f_bavail.lo \div 32768
        l0 == f_bavail.lo % 32768
        mid == f_frsize * l1 + (f_frsize * l0) \div 32768
    IN  [whole |-> f_frsize * f_bavail.hi + mid \div 32768,
         frac |-> (mid % 32768 # 0) \/ ((f_frsize * l0) % 32768 # 0)]

\* Mutant: free_gb <= n
LessThan_or_equal(x, n) == x.whole < n \/ (x.whole = n /\ ~x.frac)

\* free_gb < n, n a whole number
LessThan(x, n) == x.whole < n

MinFreeGb == 10

\* lines 776-780
FreeCheck(f) ==
    IF LessThan(free_gb(f.f_frsize, f.f_bavail), MinFreeGb) THEN "exit1" ELSE "ok"

\* lines 741-781, from the kind of file found at tmpdir on
check_after_exists(path, kind, f) ==
    IF ~IsDir(kind) THEN "exit1"
    ELSE IF IsLink(kind) THEN "exit1"
    ELSE IF MountsCheck(path, f) = "exit1" THEN "exit1"
    ELSE FreeCheck(f)

HostTmpdir == "/mnt/gentoo/var/tmp"

(***************************************************************************)
(* The inputs of the guard.                                                *)
(***************************************************************************)
MaxExtraMounts == 1
MaxDelta == 1

FileKinds == {"missing", "dir", "file", "link_dir", "link_file", "link_broken"}
FsTypes == {"ext4", "tmpfs", "overlay", "aufs", "ramfs"}
MountPoints == {"/mnt/gentoo", "/mnt/gen", "/home", "/mnt/gentoo/var/tmp"}

MountLine(mp, t) == <<"dev", mp, t, "rw", "0", "0">>

ExtraMounts ==
    UNION { [1..n -> {MountLine(mp, t) : mp \in MountPoints, t \in FsTypes}] :
            n \in 0..MaxExtraMounts }

\* a mount table: the root file system, then what was mounted after it
MountTables ==
    { <<MountLine("/", t)>> \o extra : t \in FsTypes, extra \in ExtraMounts }

BlockSizes == {1, 512, 4096}

\* the least block count that is 10 GiB: 10 * 2^30 / f_frsize
TenGiBBlocks(f_frsize) ==
    IF f_frsize = 1 THEN [hi |-> 10, lo |-> 0]
    ELSE [hi |-> 0, lo |-> 10 * (GiB \div f_frsize)]

\* b + d blocks, for a small d of either sign
AddBlocks(b, d) ==
    IF b.lo + d < 0 THEN [hi |-> b.hi - 1, lo |-> b.lo + d + GiB]
    ELSE IF b.lo + d >= GiB THEN [hi |-> b.hi + 1, lo |-> b.lo + d - GiB]
    ELSE [hi |-> b.hi, lo |-> b.lo + d]

NoFs == [kind |-> "dir", readable |-> TRUE, mounts |-> <<>>,
         f_frsize |-> 1, f_bavail |-> [hi |-> 0, lo |-> 0], delta |-> 0]

\* delta is the distance of f_bavail, in blocks, from the least count that is 10 GiB
FsInputs ==
    { [kind |-> k, readable |-> r, mounts |-> m,
       f_frsize |-> bs, f_bavail |-> AddBlocks(TenGiBBlocks(bs), d), delta |-> d] :
      k \in FileKinds, r \in BOOLEAN, m \in MountTables,
      bs \in BlockSizes, d \in (0 - MaxDelta)..MaxDelta }

Init ==
    /\ stack = <<[fn |-> "main", pc |-> 1]>>
    /\ mode = "step"
    /\ cmd = ""
    /\ running = TRUE
    /\ exitStatus = 0
    /\ USE_LVM = FALSE
    /\ DEVICES = [efi |-> "", root |-> "", home |-> "", swap |-> ""]
    /\ INIT_SYSTEM = "None"
    /\ swap_size = ""
    /\ euid \in {0, 1000}
    /\ portageDir \in BOOLEAN
    /\ aborted = FALSE
    /\ guard = "none"
    /\ choice = "None"
    /\ manual = "None"
    /\ printed = ""
    /\ devicePrompts = 0
    /\ answer = "none"
    /\ quiet = FALSE
    /\ make_conf = "None"
    /\ tmpdirFixes = 0
    /\ html = <<>>
    /\ stage3_file = "None"
    /\ fs = NoFs
    /\ verdict = "none"
    /\ chrootVerdict = "none"

Next ==
    \/ StepCall
    \/ StepReturn
    \/ MainEnd
    \/ StepExit
    \/ StepIf
    \/ StepEnv
    \/ StepJump
    \/ StepPause
    \/ StepYesNo
    \/ StepInput
    \/ StepAssign
    \/ StepOpenW
    \/ StartCmd
    \/ EndCmd
    \/ EndChrootCheck
    \/ ContinueAnyway

Spec == Init /\ [][Next]_vars

\* check_portage_tmpdir on the host; lines 741-746 create a missing directory,
\* and exit when os.makedirs raises
HostGuard ==
    /\ verdict = "none"
    /\ IF Exists(fs.kind)
       THEN /\ verdict' = check_after_exists(HostTmpdir, fs.kind, fs)
            /\ UNCHANGED fs
       ELSE \E made \in BOOLEAN :
              IF made /\ fs.kind = "missing"
              THEN /\ fs' = [fs EXCEPT !.kind = "dir"]
                   /\ verdict' = check_after_exists(HostTmpdir, "dir", fs)
              ELSE /\ verdict' = "exit1"
                   /\ UNCHANGED fs
    /\ UNCHANGED <<pipeVars, listingVars, chrootVerdict>>

GuardInit ==
    /\ stack = <<[fn |-> "check_portage_tmpdir", pc |-> 1]>>
    /\ mode = "step"
    /\ cmd = ""
    /\ running = TRUE
    /\ exitStatus = 0
    /\ USE_LVM = FALSE
    /\ DEVICES = [efi |-> "", root |-> "", home |-> "", swap |-> ""]
    /\ INIT_SYSTEM = "None"
    /\ swap_size = ""
    /\ euid = 0
    /\ portageDir = FALSE
    /\ aborted = FALSE
    /\ guard = "none"
    /\ choice = "None"
    /\ manual = "None"
    /\ printed = ""
    /\ devicePrompts = 0
    /\ answer = "none"
    /\ quiet = FALSE
    /\ make_conf = "None"
    /\ tmpdirFixes = 0
    /\ html = <<>>
    /\ stage3_file = "None"
    /\ fs \in FsInputs
    /\ verdict = "none"
    /\ chrootVerdict = "none"

GuardNext == HostGuard

GuardSpec == GuardInit /\ [][GuardNext]_vars

\* install_stage3, lines 320-325, on the listing that was fetched
PickStage3 ==
    /\ stage3_file = "None"
    /\ LET matches == findall(PrefixOf(choice), html) IN
         stage3_file' = IF matches = <<>> THEN "return" ELSE LastOf(matches)
    /\ UNCHANGED <<pipeVars, guardVars, chrootVerdict, html>>

ListingInit ==
    /\ stack = <<[fn |-> "install_stage3", pc |-> 1]>>
    /\ mode = "step"
    /\ cmd = ""
    /\ running = TRUE
    /\ exitStatus = 0
    /\ USE_LVM = FALSE
    /\ DEVICES = [efi |-> "", root |-> "", home |-> "", swap |-> ""]
    /\ \E line \in ChoiceLines :
         /\ choice = Or(strip(line), "1")
         /\ INIT_SYSTEM = InitSystemOf(line)
    /\ swap_size = ""
    /\ euid = 0
    /\ portageDir = FALSE
    /\ aborted = FALSE
    /\ guard = "none"
    /\ manual = "None"
    /\ printed = ""
    /\ devicePrompts = 1
    /\ answer = "none"
    /\ quiet = FALSE
    /\ make_conf = "None"
    /\ tmpdirFixes = 0
    /\ html \in Listings
    /\ stage3_file = "None"
    /\ fs = NoFs
    /\ verdict = "none"
    /\ chrootVerdict = "none"

ListingNext == PickStage3

ListingSpec == ListingInit /\ [][ListingNext]_vars

(***************************************************************************)
(* The check script install_stage3 writes to /mnt/gentoo/root, lines       *)
(* 333-379, which chroot_env runs inside `chroot /mnt/gentoo`.  There the  *)
(* guarded directory /mnt/gentoo/var/tmp is /var/tmp, and /proc/mounts     *)
(* lists the mounts under /mnt/gentoo, by their paths from the new root.   *)
(***************************************************************************)
ChrootRoot == "/mnt/gentoo"

ChrootTmpdir == "/var/tmp"

\* mp lies in the chroot
InChroot(mp) == mp = ChrootRoot \/ startswith(mp, ChrootRoot \o "/")

\* the path of mp from the new root
ChrootPath(mp) ==
    IF mp = ChrootRoot THEN "/" ELSE SubSeq(mp, Len(ChrootRoot) + 1, Len(mp))

\* /proc/mounts as a process in the chroot reads it
RECURSIVE ChrootView(_)
ChrootView(mounts) ==
    IF mounts = <<>> THEN <<>>
    ELSE LET parts == Head(mounts) IN
         IF Len(parts) >= 2 /\ InChroot(parts[2])
         THEN <<[parts EXCEPT ![2] = ChrootPath(parts[2])]>> \o ChrootView(Tail(mounts))
         ELSE ChrootView(Tail(mounts))

\* lines 340-376: the script's check_portage_tmpdir; a missing path is
\* sys.exit(1), the rest is the host function's text with tmpdir = "/var/tmp"
check_script(kind, f) ==
    IF ~Exists(kind) THEN "exit1"
    ELSE check_after_exists(ChrootTmpdir, kind, [f EXCEPT !.mounts = ChrootView(f.mounts)])

ChrootGuard ==
    /\ chrootVerdict = "none"
    /\ chrootVerdict' = check_script(fs.kind, fs)
    /\ UNCHANGED <<pipeVars, listingVars, fs, verdict>>

\* both guards, in either order, on one directory
ScriptNext ==
    \/ HostGuard
    \/ ChrootGuard

ScriptSpec == GuardInit /\ [][ScriptNext]_vars

(***************************************************************************)
(* Properties.                                                             *)
(***************************************************************************)
\* The stages main runs after its start-up calls.
Stages ==
    { main[i].fn : i \in { j \in 1..Len(main) : main[j].op = "call" } }
      \ {"require_root", "remount_tmpfs_if_needed"}

InStage(fn) == Len(stack) >= 2 /\ stack[2].fn = fn

\* The frame of main stands at a step that calls fn or asks the question before it.
MainAt(fn) ==
    /\ stack[1].pc <= Len(main)
    /\ \/ main[stack[1].pc] = Call(fn)
       \/ /\ main[stack[1].pc].op = "yesno"
          /\ main[stack[1].pc + 1] = Call(fn)

\* A command of fn is being executed.
Executing(fn) == running /\ mode = "exec" /\ Top.fn = fn

\* C1: once the operator has answered no to "Continue anyway?", the process
\* has terminated with exit status 1, and from then on nothing changes: no
\* command is issued, no stage is entered, no state field is written.
C1_AbortTerminates ==
    /\ [](aborted => (~running /\ exitStatus = 1))
    /\ [][aborted => UNCHANGED vars]_vars

\* the operator aborts a failed command of setup_luks_lvm, after USE_LVM was set
C1_Witness ==
    aborted /\ ~running /\ exitStatus = 1 /\ Top.fn = "setup_luks_lvm" /\ USE_LVM

\* C2: a run by root in which the operator never aborts ends with exit status
\* zero, whatever commands failed.
C2_ContinueExitsZero ==
    (~running /\ ~aborted /\ euid = 0) => exitStatus = 0

\* C3: configure_lvm is never running, and its question is never asked, while
\* USE_LVM is false.
C3_ConfigureLvmNeedsLvm ==
    (OnStack("configure_lvm") \/ (running /\ Len(stack) = 1 /\ MainAt("configure_lvm")))
        => USE_LVM

\* configure_lvm runs a command, volume management being enabled
C3_Witness == Executing("configure_lvm") /\ USE_LVM

\* setup_luks_lvm stands at its return, or has returned
LvmSetupDone ==
    \/ ~OnStack("setup_luks_lvm")
    \/ /\ running /\ mode = "step" /\ Top.fn = "setup_luks_lvm"
       /\ IF AtEnd THEN TRUE ELSE Cur.op = "return"

Managed(D) ==
    /\ D.root = "/dev/vg0/root"
    /\ D.home = "/dev/vg0/home"
    /\ D.swap \in {"", "/dev/vg0/swap"}

\* C4: when setup_luks_lvm returns with USE_LVM true, root and home are the
\* logical volumes, and swap is the swap volume or empty: no raw path is left.
C4_LvmOverwritesDevices ==
    (USE_LVM /\ LvmSetupDone) => Managed(DEVICES)

\* setup_luks_lvm is about to return, after devices were collected
C4_Witness ==
    /\ USE_LVM /\ running /\ Top.fn = "setup_luks_lvm" /\ AtEnd
    /\ DEVICES.efi = "/dev/sda1" /\ Managed(DEVICES)

\* C5 as claimed: in every state with USE_LVM true, root and home are
\* volume-manager paths.
C5_LvmAlwaysManaged ==
    USE_LVM => (DEVICES.root = "/dev/vg0/root" /\ DEVICES.home = "/dev/vg0/home")

\* setup_luks_lvm has set USE_LVM (line 134) and not yet assigned home (line 150)
LvmSetupPending ==
    \E i \in 1..Len(stack) :
        /\ stack[i].fn = "setup_luks_lvm"
        /\ stack[i].pc <= Len(setup_luks_lvm)
        /\ \E j \in stack[i].pc..Len(setup_luks_lvm) :
             setup_luks_lvm[j] = Do("DEVICES[home] = '/dev/vg0/home'")

\* C5, amended: in every state with USE_LVM true outside lines 134-150 of
\* setup_luks_lvm, root and home are volume-manager paths: no other code
\* writes them.
C5_LvmManagedOnceAssigned ==
    (USE_LVM /\ ~LvmSetupPending) =>
        (DEVICES.root = "/dev/vg0/root" /\ DEVICES.home = "/dev/vg0/home")

\* a later stage runs its commands on the volume-manager paths
C5_Witness ==
    USE_LVM /\ Executing("mount_filesystems") /\ DEVICES.root = "/dev/vg0/root"

\* The commands of create_filesystems and mount_filesystems that make or mount
\* a file system (all of them but the mkdir -p of the mount points).
FsCommands ==
    ( { create_filesystems[i].cmd :
          i \in { j \in 1..Len(create_filesystems) : create_filesystems[j].op = "run_cmd" } }
      \cup
      { mount_filesystems[i].cmd :
          i \in { j \in 1..Len(mount_filesystems) : mount_filesystems[j].op = "run_cmd" } } )
    \ {"mkdir -p /mnt/gentoo", "mkdir -p /mnt/gentoo/boot", "mkdir -p /mnt/gentoo/home"}

\* C6: create_filesystems and mount_filesystems run no file-system creation
\* or mount command while efi or root is empty.
C6_NoCommandWithoutDevices ==
    (running /\ mode = "exec" /\ cmd \in FsCommands)
        => (DEVICES.efi # "" /\ DEVICES.root # "")

\* A guard check has been made: by check_portage_tmpdir or by the script in the chroot.
GuardHasRun == verdict # "none" \/ guard # "none"

\* C7: no stage runs before the guard has.
C7_GuardBeforeStages ==
    (\E fn \in Stages : InStage(fn)) => GuardHasRun

\* C8: a failed guard check ends the process with a non-zero status, and no
\* continue/abort question is asked for it.
C8_GuardFailureIsFatal ==
    guard = "fail" => (~running /\ exitStatus # 0 /\ ~aborted)

(***************************************************************************)
(* Properties of check_portage_tmpdir, under GuardSpec.                    *)
(***************************************************************************)
\* mp is the path or a directory above it
IsAncestor(mp, path) ==
    mp = "/" \/ mp = path \/ startswith(path, mp \o "/")

\* The file system backing the path: that of the last mount on the path or
\* on a directory above it.
RECURSIVE BackingFs(_, _, _)
BackingFs(path, mounts, sofar) ==
    IF mounts = <<>> THEN sofar
    ELSE BackingFs(path, Tail(mounts),
                   IF IsAncestor(Head(mounts)[2], path) THEN Head(mounts)[3] ELSE sofar)

\* The guard ran on a real directory with a readable mount table.
GuardRanOnDir == verdict # "none" /\ fs.kind = "dir" /\ fs.readable

\* C9: the guard rejects a path on a volatile file system, and accepts a path
\* on any other file system with 10 GiB free, whatever else is mounted.
C9_RejectsExactlyVolatileBacking ==
    GuardRanOnDir =>
        LET backing == BackingFs(HostTmpdir, fs.mounts, "unknown") IN
        /\ backing \in VolatileFs => verdict = "exit1"
        /\ (backing \notin VolatileFs /\ fs.delta >= 0) => verdict = "ok"

\* The guard reached its free-space check.
ReachedFreeCheck ==
    verdict # "none" /\ fs.kind = "dir" /\ MountsCheck(HostTmpdir, fs) = "pass"

\* C10: past the file-system check, the guard accepts exactly when
\* f_frsize * f_bavail is at least 10 GiB.
C10_FreeSpaceBoundary ==
    ReachedFreeCheck => (verdict = "ok" <=> fs.delta >= 0)

\* one byte less than 10 GiB is rejected
C10_Witness ==
    ReachedFreeCheck /\ fs.f_frsize = 1 /\ fs.delta = -1 /\ verdict = "exit1"

(***************************************************************************)
(* Properties of INIT_SYSTEM.                                              *)
(***************************************************************************)
\* C11: once install_stage3 has read the choice, INIT_SYSTEM is systemd for
\* choice 1 or 3, openrc for choice 2 or 4 and systemd for anything else (an
\* empty line is choice 1): plain or desktop makes no difference.
C11_InitSystemByChoice ==
    choice # "None" =>
        INIT_SYSTEM = (CASE choice \in {"1", "3"} -> "systemd"
                         [] choice \in {"2", "4"} -> "openrc"
                         [] OTHER -> "systemd")

\* install_stage3 downloads the openrc desktop variant
C11_Witness ==
    Executing("install_stage3") /\ choice = "4" /\ INIT_SYSTEM = "openrc"

\* C12: INIT_SYSTEM starts unset; its value changes only from unset, and only
\* in install_stage3; and the assignment is never reached once it is set.
C12_InitSystemWriteOnce ==
    /\ INIT_SYSTEM = "None"
    /\ [][INIT_SYSTEM' # INIT_SYSTEM =>
            (INIT_SYSTEM = "None" /\ Top.fn = "install_stage3")]_vars
    /\ []((At("input") /\ Cur.var = "choice") => INIT_SYSTEM = "None")

\* select_profile reads the value install_stage3 assigned
C12_Witness ==
    Executing("select_profile") /\ INIT_SYSTEM = "openrc"
         /\ cmd = "eselect profile list | grep {INIT_SYSTEM}"

(***************************************************************************)
(* Properties of the choice of the stage3 file, under ListingSpec.         *)
(***************************************************************************)
Ord(c) == CHOOSE i \in 1..Len(CodePoints) : SubSeq(CodePoints, i, i) = c

\* a < b, as Python compares strings
RECURSIVE LexLess(_, _)
LexLess(a, b) ==
    IF Len(b) = 0 THEN FALSE
    ELSE IF Len(a) = 0 THEN TRUE
    ELSE LET x == Ord(SubSeq(a, 1, 1))
             y == Ord(SubSeq(b, 1, 1))
         IN  IF x # y THEN x < y
             ELSE LexLess(SubSeq(a, 2, Len(a)), SubSeq(b, 2, Len(b)))

IsLexLast(name, matches) ==
    /\ \E i \in 1..Len(matches) : matches[i] = name
    /\ \A i \in 1..Len(matches) : ~LexLess(name, matches[i])

\* C13: the file install_stage3 goes on to download is the lexicographically
\* last of the matching names, whatever the order of the listing.
C13_LatestIsLexLast ==
    stage3_file \notin {"None", "return"} =>
        IsLexLast(stage3_file, findall(PrefixOf(choice), html))

(***************************************************************************)
(* Properties of the order of the stages.                                  *)
(***************************************************************************)
\* The step of main that follows the partitioning decision.
AfterPartitioning ==
    (CHOOSE i \in 1..Len(main) : main[i] = Call("partition_disk")) + 1

\* The stages that read DEVICES.
DevicesReaders == {"create_filesystems", "mount_filesystems", "configure_fstab"}

\* C14: prompt_device_paths is called at most once; it has been called once
\* main is past the step after the partitioning decision, whether the disk
\* was partitioned or not, and in every run of root that ended without an
\* abort; and it has returned before any stage that reads DEVICES runs.
C14_DevicePromptOnce ==
    /\ devicePrompts <= 1
    /\ (stack[1].fn = "main" /\ stack[1].pc > AfterPartitioning) => devicePrompts = 1
    /\ (stack[1].fn = "main" /\ ~running /\ ~aborted /\ euid = 0) => devicePrompts = 1
    /\ (\E fn \in DevicesReaders : OnStack(fn)) =>
           (devicePrompts = 1 /\ ~OnStack("prompt_device_paths"))

\* create_filesystems works on the devices that were asked for
C14_Witness ==
    /\ Executing("create_filesystems") /\ cmd = "mkfs.ext4 {DEVICES['root']}"
    /\ devicePrompts = 1 /\ DEVICES.root = "/dev/sda2"

\* The place of the call of stage fn in main.
PlaceOf(fn) == CHOOSE i \in 1..Len(main) : main[i] = Call(fn)

\* main is past the place of fn: fn has run, or the operator declined it.
Past(fn) == stack[1].fn = "main" /\ stack[1].pc > PlaceOf(fn)

\* C15 as claimed: a stage that reads INIT_SYSTEM runs only once
\* install_stage3 has set it, and a stage that reads DEVICES only after
\* prompt_device_paths and after setup_luks_lvm was resolved.
C15_ReadersAfterProducers ==
    /\ (OnStack("select_profile") \/ OnStack("ensure_make_conf")) => INIT_SYSTEM # "None"
    /\ (\E fn \in DevicesReaders : OnStack(fn)) =>
           (Past("prompt_device_paths") /\ Past("setup_luks_lvm"))

\* C15, amended: a stage reads a field only once main is past the place of
\* the stage that produces it, which by then has run or was declined:
\* select_profile after install_stage3's place (INIT_SYSTEM is still unset if
\* install_stage3 was declined), ensure_make_conf with INIT_SYSTEM set, the
\* readers of DEVICES after prompt_device_paths and setup_luks_lvm, and the
\* test of USE_LVM after setup_luks_lvm.
C15_ReadersAfterProducerPlace ==
    /\ OnStack("select_profile") => Past("install_stage3")
    /\ OnStack("ensure_make_conf") => INIT_SYSTEM # "None"
    /\ (\E fn \in DevicesReaders : OnStack(fn)) =>
           (Past("prompt_device_paths") /\ Past("setup_luks_lvm"))
    /\ (At("if") /\ Cur.cond = "USE_LVM") => Past("setup_luks_lvm")

\* select_profile lists the profiles with INIT_SYSTEM unset, install_stage3
\* having been declined
C15_Witness ==
    /\ Executing("select_profile") /\ cmd = "eselect profile list"
    /\ INIT_SYSTEM = "None" /\ Past("install_stage3")

(***************************************************************************)
(* Properties of run_cmd and yesno.                                        *)
(***************************************************************************)
\* The cleanup commands of unmount_partitions: umount, swapoff, vgchange -an
\* and the loop of cryptsetup close.
CleanupCommands ==
    { unmount_partitions[i].cmd :
        i \in { j \in 1..Len(unmount_partitions) : unmount_partitions[j].op = "run_cmd" } }

\* C16: a cleanup command, whatever its status, returns to its caller, which
\* goes on; a command that failed under check=False leaves the process
\* running at the next statement; and "Continue anyway?" is asked only for a
\* command run with check=True, never for a cleanup command.
C16_UncheckedFailurePasses ==
    /\ [][(mode = "exec" /\ cmd \in CleanupCommands) =>
            /\ running' /\ mode' = "step" /\ ~aborted'
            /\ stack' = [stack EXCEPT ![Len(stack)].pc = @ + 1]]_vars
    /\ [](quiet => (running /\ mode = "step" /\ ~aborted))
    /\ [](mode = "ask" => (Cur.check /\ Cur.cmd \notin CleanupCommands))

\* vgchange -an has failed, and unmount_partitions is at its next command
C16_Witness ==
    /\ quiet /\ running /\ mode = "step" /\ Top.fn = "unmount_partitions"
    /\ Cur.op = "run_cmd" /\ Body(Top.fn)[Top.pc - 1].cmd = "vgchange -an"

\* C17: a process that is not root never gets further than require_root: it
\* asks nothing, runs no command, enters no stage and writes no field, it
\* can always take its next step, and when it has ended its status is not 0.
C17_NotRootStopsFirst ==
    euid # 0 =>
        /\ stack \in { <<[fn |-> "main", pc |-> 1]>>,
                        <<[fn |-> "main", pc |-> 1], [fn |-> "require_root", pc |-> 1]>>,
                        <<[fn |-> "main", pc |-> 1], [fn |-> "require_root", pc |-> 2]>> }
        /\ mode = "step" /\ cmd = "" /\ printed = "" /\ answer = "none"
        /\ DEVICES = [efi |-> "", root |-> "", home |-> "", swap |-> ""]
        /\ ~USE_LVM /\ INIT_SYSTEM = "None" /\ devicePrompts = 0
        /\ running => ENABLED Next
        /\ ~running => exitStatus # 0

\* the process of an ordinary user has ended in require_root
C17_Witness ==
    euid # 0 /\ ~running /\ exitStatus = 1 /\ Top.fn = "require_root"

MainAnsweredNo == stack[1].fn = "main" /\ Len(stack) = 1 /\ answer = "False"

\* C19: the answer no to a question of main moves main past the call of the
\* stage, with no command issued and DEVICES, USE_LVM and INIT_SYSTEM as they
\* were; and declining inside setup_luks_lvm (lines 131-133) changes no field.
C19_DeclinedStageSkipped ==
    /\ [][(Len(stack) = 1 /\ At("yesno") /\ answer' = "False") =>
            /\ UNCHANGED <<DEVICES, USE_LVM, INIT_SYSTEM, mode, cmd>>
            /\ stack' = <<[fn |-> "main", pc |-> stack[1].pc + 2]>>]_vars
    /\ [](MainAnsweredNo =>
            /\ running /\ mode = "step" /\ cmd = ""
            /\ main[stack[1].pc - 2].op = "yesno"
            /\ main[stack[1].pc - 1].op = "call")
    /\ [][(At("assign") /\ Cur.eff = "USE_LVM = False") =>
            UNCHANGED <<DEVICES, USE_LVM, INIT_SYSTEM>>]_vars

\* "Setup LUKS and LVM?" was answered no: the devices collected stay
C19_Witness ==
    /\ MainAnsweredNo /\ main[stack[1].pc - 1] = Call("setup_luks_lvm")
    /\ DEVICES.root = "/dev/sda2" /\ ~USE_LVM

\* C20, for the question of set_time, "Would you like to set the date/time
\* now? [y/n]": it has returned only on y, yes, n or no (trimmed, in lower
\* case), and the date is asked for only after y or yes.
C20_EveryQuestionReasked ==
    /\ manual # "None" => manual \in {"y", "yes", "n", "no"}
    /\ (At("input") /\ Cur.var = "date_str") => manual \in {"y", "yes"}

(***************************************************************************)
(* Properties of whole runs.                                               *)
(***************************************************************************)
\* What prompt_device_paths can leave in DEVICES: what was typed, trimmed, or
\* nothing.
Collected(D) ==
    /\ D.efi \in {strip(line) : line \in EfiLines}
    /\ D.root \in {strip(line) : line \in RootLines}
    /\ D.home \in {strip(line) : line \in HomeLines} \cup {""}
    /\ D.swap \in {strip(line) : line \in SwapLines} \cup {""}

\* C21: in prompt_device_paths the answer no to the home or the swap question
\* leads to the assignment that empties the role; after prompt_device_paths
\* DEVICES is written only by setup_luks_lvm once USE_LVM is true, and
\* USE_LVM only by setup_luks_lvm, so that while USE_LVM is false DEVICES
\* holds what was collected; and configure_lvm never runs, nor is its
\* question asked, while USE_LVM is false.  With C11 and C12 the run of the
\* claim ends in the state of C21_Witness.
C21_DeclinedRunKeepsState ==
    /\ []((Top.fn = "prompt_device_paths" /\ answer = "False") =>
            (At("assign") /\ Cur.eff \in {"DEVICES[home] = ''", "DEVICES[swap] = ''"}))
    /\ [][(At("assign") /\ Cur.eff = "DEVICES[home] = ''") => DEVICES'.home = ""]_vars
    /\ [][(At("assign") /\ Cur.eff = "DEVICES[swap] = ''"
             /\ Top.fn = "prompt_device_paths") => DEVICES'.swap = ""]_vars
    /\ [][DEVICES' # DEVICES =>
            \/ Top.fn = "prompt_device_paths"
            \/ Top.fn = "setup_luks_lvm" /\ USE_LVM]_vars
    /\ [][USE_LVM' # USE_LVM => Top.fn = "setup_luks_lvm"]_vars
    /\ [](~USE_LVM => Collected(DEVICES))
    /\ [](~USE_LVM => ~(OnStack("configure_lvm")
                          \/ (running /\ Len(stack) = 1 /\ MainAt("configure_lvm"))))

\* the run of the claim has reached the end of main
C21_Witness ==
    /\ ~running /\ exitStatus = 0 /\ stack[1].fn = "main" /\ Len(stack) = 1
    /\ DEVICES = [efi |-> "/dev/sda1", root |-> "/dev/sda2", home |-> "", swap |-> ""]
    /\ ~USE_LVM /\ INIT_SYSTEM = "openrc"

\* setup_luks_lvm has made its assignments to DEVICES.
LvmAssigned ==
    /\ Top.fn = "setup_luks_lvm"
    /\ \E j \in 1..(Top.pc - 1) : setup_luks_lvm[j] = Do("DEVICES[home] = '/dev/vg0/home'")

\* C22: once setup_luks_lvm has made its assignments, root and home are the
\* logical volumes and swap is empty if the swap size entered was "0" and
\* /dev/vg0/swap for every other entry, the empty entry being taken as 4G;
\* the swap volume is created only with a swap size that is not "0".
C22_SwapFollowsSize ==
    /\ LvmAssigned =>
          /\ USE_LVM
          /\ swap_size \in {Or(strip(line), "4G") : line \in SwapSizeLines}
          /\ DEVICES.swap = (IF swap_size = "0" THEN "" ELSE "/dev/vg0/swap")
          /\ DEVICES.root = "/dev/vg0/root"
          /\ DEVICES.home = "/dev/vg0/home"
    /\ (Executing("setup_luks_lvm") /\ cmd = "lvcreate --size {swap_size} vg0 --name swap")
          => swap_size \in {"4G", "8G"}
    /\ (Top.fn = "setup_luks_lvm" /\ swap_size = "0") =>
          cmd # "lvcreate --size {swap_size} vg0 --name swap"

\* swap size "0" was entered and setup_luks_lvm is at its end
C22_Witness ==
    /\ LvmAssigned /\ running /\ AtEnd
    /\ swap_size = "0" /\ DEVICES.swap = ""

\* The remediation of /var/tmp and /tmp is never started once main is past
\* update_world.
NoFixAfterWorld == ~(Past("update_world") /\ cmd = chroot_fix_tmp)

\* C23 as claimed, its first half: whenever update_world executes, the
\* remediation that makes /var/tmp and /tmp plain directories of mode 1777
\* has been executed before it.  (The second half, a remediation after the
\* stage, is excluded in every run by NoFixAfterWorld.)
C23_TmpdirsFixedBeforeWorld ==
    InStage("update_world") => tmpdirFixes >= 1

\* C24 as claimed: when install_stage3 is about to return, make.conf holds the
\* USE flags of the selected init system.
C24_MakeConfBeforeReturn ==
    (/\ running /\ mode = "step" /\ Top.fn = "install_stage3"
     /\ IF AtEnd THEN TRUE ELSE Cur.op = "return")
       => make_conf = use_flags(INIT_SYSTEM)

\* C25 as claimed: on one directory, mount table and free space the script
\* generated for the chroot and the host's check_portage_tmpdir end alike,
\* both accepting or both with exit status 1.
C25_GuardsAgree ==
    (verdict # "none" /\ chrootVerdict # "none") => verdict = chrootVerdict

\* With a disk mounted at /mnt/gentoo the script does not refuse what the
\* host function accepts.  The missing directory refutes it: the script
\* refuses it, the host function creates it and goes on.
AgreeOnDiskMount ==
    fs.mounts = <<MountLine("/", "ext4"), MountLine("/mnt/gentoo", "ext4")>>
      => ~(chrootVerdict = "exit1" /\ verdict = "ok")

\* The operator has answered yes to partition_disk's wipe question: the
\* frame of partition_disk is past the return of the declined branch.
WipeConfirmed ==
    \E i \in 1..Len(stack) :
        /\ stack[i].fn = "partition_disk"
        /\ \E j \in 1..(stack[i].pc - 1) :
             j <= Len(partition_disk) /\ partition_disk[j].op = "return"

PartedCommands ==
    { partition_disk[i].cmd :
        i \in { j \in 1..Len(partition_disk) : partition_disk[j].op = "run_cmd" } }

\* C26 as claimed: while partition_disk runs, umount, swapoff, vgchange -an,
\* cryptsetup close and parted are executed only once the operator has
\* confirmed the wipe.
C26_NothingBeforeWipeConfirmed ==
    (/\ running /\ mode = "exec" /\ OnStack("partition_disk")
     /\ cmd \in CleanupCommands \cup PartedCommands)
       => WipeConfirmed

\* c is a command of systemd
SystemdOnly(c) ==
    \E tool \in {"systemctl", "localectl", "timedatectl", "bootctl"} :
        startswith(c, tool \o " ")

\* C27 as claimed: with INIT_SYSTEM openrc no command of systemd is executed.
C27_NoSystemdUnderOpenrc ==
    (running /\ mode = "exec" /\ INIT_SYSTEM = "openrc") => ~SystemdOnly(cmd)

\* C28 as claimed: while USE_LVM is false enable_lvm2 does not run, and its
\* question is not asked.
C28_EnableLvm2OnlyWithLvm ==
    ~USE_LVM =>
        /\ ~OnStack("enable_lvm2")
        /\ ~(running /\ Len(stack) = 1 /\ MainAt("enable_lvm2"))

\* The first half of C28 alone; refuted as well: enable_lvm2's command is
\* executed while USE_LVM is false.
EnableLvm2NeverWithoutLvm ==
    ~(Executing("enable_lvm2") /\ ~USE_LVM /\ cmd = "systemctl enable lvm2-lvmetad.service")

====
